---- MODULE Spec2Model ----
(***************************************************************************)
(* A model of lopdf's nom_parser.rs: the PDF object, document-structure    *)
(* and content-stream grammars.  Every parser of the source is an operator *)
(* P(s, p) over the whole input s (a sequence of byte values 0..255) and a  *)
(* 0-based read position p, returning a result record                       *)
(*     [ok, err, pos, val].                                                 *)
(* The pom engine's combinators (seq, sym, |, -, *, +, repeat, opt, expect) *)
(* and nom's (tag, alt, many0, take_while, map_res) are unfolded in place.  *)
(***************************************************************************)
EXTENDS Integers, Sequences, FiniteSets, TLC

VARIABLES
    input,   \* the byte buffer handed to the parser
    parts,   \* how the buffer was assembled (the pieces of the test input)
    reader,  \* the Reader collaborator: what get_object answers
    entry,   \* the parser that was run ("none" before the call)
    result,  \* what the parser returned
    pc,      \* "ready" | "loop" | "done"
    pos      \* read position of the repetition being stepped

vars == <<input, parts, reader, entry, result, pc, pos>>

----------------------------------------------------------------------------
(* Bytes *)

Ord ==
    ("NUL" :> 0) @@ ("BS" :> 8) @@ ("TAB" :> 9) @@ ("LF" :> 10) @@ ("FF" :> 12) @@
    ("CR" :> 13) @@ (" " :> 32) @@ ("\"" :> 34) @@ ("#" :> 35) @@ ("%" :> 37) @@
    ("'" :> 39) @@ ("(" :> 40) @@ (")" :> 41) @@ ("*" :> 42) @@ ("+" :> 43) @@
    ("-" :> 45) @@ ("." :> 46) @@ ("/" :> 47) @@ ("0" :> 48) @@ ("1" :> 49) @@
    ("2" :> 50) @@ ("3" :> 51) @@ ("4" :> 52) @@ ("5" :> 53) @@ ("6" :> 54) @@
    ("7" :> 55) @@ ("8" :> 56) @@ ("9" :> 57) @@ ("<" :> 60) @@ (">" :> 62) @@
    ("A" :> 65) @@ ("B" :> 66) @@ ("C" :> 67) @@ ("D" :> 68) @@ ("E" :> 69) @@
    ("F" :> 70) @@ ("G" :> 71) @@ ("H" :> 72) @@ ("I" :> 73) @@ ("J" :> 74) @@
    ("K" :> 75) @@ ("L" :> 76) @@ ("M" :> 77) @@ ("N" :> 78) @@ ("O" :> 79) @@
    ("P" :> 80) @@ ("Q" :> 81) @@ ("R" :> 82) @@ ("S" :> 83) @@ ("T" :> 84) @@
    ("U" :> 85) @@ ("V" :> 86) @@ ("W" :> 87) @@ ("X" :> 88) @@ ("Y" :> 89) @@
    ("Z" :> 90) @@ ("[" :> 91) @@ ("\\" :> 92) @@ ("]" :> 93) @@ ("a" :> 97) @@
    ("b" :> 98) @@ ("c" :> 99) @@ ("d" :> 100) @@ ("e" :> 101) @@ ("f" :> 102) @@
    ("g" :> 103) @@ ("h" :> 104) @@ ("i" :> 105) @@ ("j" :> 106) @@ ("k" :> 107) @@
    ("l" :> 108) @@ ("m" :> 109) @@ ("n" :> 110) @@ ("o" :> 111) @@ ("p" :> 112) @@
    ("q" :> 113) @@ ("r" :> 114) @@ ("s" :> 115) @@ ("t" :> 116) @@ ("u" :> 117) @@
    ("v" :> 118) @@ ("w" :> 119) @@ ("x" :> 120) @@ ("y" :> 121) @@ ("z" :> 122)

\* The bytes of a tuple of characters, e.g. B(<<"o","b","j">>).
B(t) == [i \in 1..Len(t) |-> Ord[t[i]]]

At(s, p) == s[p + 1]
Slice(s, from, to) == SubSeq(s, from + 1, to)

Ok(v, p) == [ok |-> TRUE, err |-> "None", pos |-> p, val |-> v]
Fail(kind, p) == [ok |-> FALSE, err |-> kind, pos |-> p, val |-> <<>>]

\* pom's `|` backtracks on every error but Error::Expect; a panic unwinds.
IsFatal(r) == r.err \in {"Expect", "Panic"}
Or(r1, r2) == IF r1.ok \/ IsFatal(r1) THEN r1 ELSE r2

\* nom's alt: the first alternative that succeeds (all errors here are Err::Error).
alt(r1, r2) == IF r1.ok THEN r1 ELSE r2

is_ascii_digit(c) == c \in 48..57
is_ascii_hexdigit(c) == c \in (48..57) \cup (65..70) \cup (97..102)
is_oct_digit(c) == c \in 48..55
is_whitespace(c) == c \in {32, 9, 10, 13, 0, 12}
is_delimiter(c) == c \in {40, 41, 60, 62, 91, 93, 123, 125, 47, 37}
is_regular(c) == ~is_whitespace(c) /\ ~is_delimiter(c)
multispace(c) == c \in {32, 9, 10, 13}
alpha(c) == c \in (65..90) \cup (97..122)

HexVal(c) == IF c \in 48..57 THEN c - 48 ELSE IF c \in 65..70 THEN c - 55 ELSE c - 87

\* End of the maximal run of bytes satisfying the class, starting at p.
RECURSIVE RunDigits(_, _)
RunDigits(s, p) == IF p < Len(s) /\ is_ascii_digit(At(s, p)) THEN RunDigits(s, p + 1) ELSE p
RECURSIVE RunWhitespace(_, _)
RunWhitespace(s, p) == IF p < Len(s) /\ is_whitespace(At(s, p)) THEN RunWhitespace(s, p + 1) ELSE p
RECURSIVE RunNotEol(_, _)
RunNotEol(s, p) == IF p < Len(s) /\ At(s, p) \notin {13, 10} THEN RunNotEol(s, p + 1) ELSE p

RECURSIVE DecVal(_)
DecVal(ds) == IF ds = <<>> THEN 0 ELSE 10 * DecVal(SubSeq(ds, 1, Len(ds) - 1)) + (ds[Len(ds)] - 48)
RECURSIVE OctVal(_)
OctVal(ds) == IF ds = <<>> THEN 0 ELSE 8 * OctVal(SubSeq(ds, 1, Len(ds) - 1)) + (ds[Len(ds)] - 48)

RECURSIVE StripZeros(_)
StripZeros(ds) == IF Len(ds) > 1 /\ ds[1] = 48 THEN StripZeros(Tail(ds)) ELSE ds
RECURSIVE LexLeq(_, _)
LexLeq(a, b) ==
    IF a = <<>> THEN TRUE
    ELSE IF a[1] # b[1] THEN a[1] < b[1]
    ELSE LexLeq(Tail(a), Tail(b))
\* FromStr of a digit run into a fixed-width integer: does it fit below max?
DecLeq(ds, max) ==
    LET a == StripZeros(ds)
    IN  Len(a) < Len(max) \/ (Len(a) = Len(max) /\ LexLeq(a, max))
I64Max == B(<<"9","2","2","3","3","7","2","0","3","6","8","5","4","7","7","5","8","0","7">>)
U32Max == B(<<"4","2","9","4","9","6","7","2","9","5">>)
U16Max == B(<<"6","5","5","3","5">>)

----------------------------------------------------------------------------
(* pom primitives *)

\* pom seq(tag)
RECURSIVE seq_from(_, _, _, _)
seq_from(t, s, start, index) ==
    IF index = Len(t) THEN Ok(t, start + index)
    ELSE IF start + index >= Len(s) THEN Fail("Incomplete", start)
    ELSE IF At(s, start + index) # t[index + 1] THEN Fail("Mismatch", start)
    ELSE seq_from(t, s, start, index + 1)
seq(t, s, p) == seq_from(t, s, p, 0)

\* pom sym(c)
sym(c, s, p) ==
    IF p >= Len(s) THEN Fail("Incomplete", p)
    ELSE IF At(s, p) = c THEN Ok(c, p + 1)
    ELSE Fail("Mismatch", p)

\* A take that stops at the end of the input instead of failing.
take_clamped(n, s, p) ==
    IF Len(s) >= p + n THEN Ok(Slice(s, p, p + n), p + n) ELSE Ok(Slice(s, p, Len(s)), Len(s))

\* pom take(n), n a usize below 2^63
take(n, s, p) ==
    IF Len(s) >= p + n THEN Ok(Slice(s, p, p + n), p + n) ELSE Fail("Incomplete", p)

\* The bridge: a nom result over &input[inpos..] becomes a pom result.
nom_to_pom(r, s, inpos) ==
    IF r.ok
    THEN LET nom_input_len == Len(s) - inpos
             rem_len == Len(s) - r.pos
             parsed_len == nom_input_len - rem_len
         IN  Ok(r.val, inpos + parsed_len)
    ELSE Fail("Mismatch", inpos)

\* nom tag(t)
tag(t, s, p) ==
    IF p + Len(t) <= Len(s) /\ Slice(s, p, p + Len(t)) = t
    THEN Ok(t, p + Len(t)) ELSE Fail("Error", p)

\* Sequencing (pom's `-`, `*`, `+`, `>>`; nom's and_then): the continuation K runs
\* on a success, a failure is returned as it is.
Then(r, K(_)) == IF r.ok THEN K(r) ELSE r

\* One round of a repetition (pom's repeat, nom's many0): More on a success, the
\* collected result on any failure.
Loop(r, More(_), done) == IF r.ok THEN More(r) ELSE done

\* pom's opt(): a failure consumes nothing.
Opt(r, p) == IF r.ok THEN r ELSE Ok(<<"None">>, p)

\* map: the value of a success replaced.
Const(r, v) == IF r.ok THEN Ok(v, r.pos) ELSE r

----------------------------------------------------------------------------
(* Lexical layer *)

eol(s, p) ==
    alt(Const(tag(B(<<"CR","LF">>), s, p), 10),
    alt(Const(tag(B(<<"LF">>), s, p), 10),
        Const(tag(B(<<"CR">>), s, p), 13)))

comment(s, p) ==
    Then(tag(B(<<"%">>), s, p), LAMBDA r1 :
    Const(eol(s, RunNotEol(s, r1.pos)), <<>>))

white_space(s, p) == Ok(<<>>, RunWhitespace(s, p))

\* take_while1(is_whitespace)
whitespace1(s, p) ==
    IF RunWhitespace(s, p) > p THEN Ok(<<>>, RunWhitespace(s, p)) ELSE Fail("Error", p)

\* One iteration of space's many0_count: take_while1(is_whitespace) or a comment.
space_item(s, p) == alt(whitespace1(s, p), comment(s, p))

\* many0_count fails when an iteration succeeds without consuming.
RECURSIVE space(_, _)
space(s, p) ==
    Loop(space_item(s, p),
         LAMBDA r : IF r.pos = p THEN Fail("Error", p) ELSE space(s, r.pos),
         Ok(<<>>, p))

\* i64::from_str of the optional sign and the digits s[i..e).
integer_value(s, p, i, e) ==
    IF e = i \/ ~DecLeq(Slice(s, i, e), I64Max) THEN Fail("Error", p)
    ELSE Ok((IF At(s, p) = 45 THEN -1 ELSE 1) * DecVal(Slice(s, i, e)), e)

integer_digits(s, p, i) == integer_value(s, p, i, RunDigits(s, i))

integer(s, p) ==
    integer_digits(s, p, IF p < Len(s) /\ At(s, p) \in {43, 45} THEN p + 1 ELSE p)

\* one_of(b"0123456789").repeat(min..)
digits(min, s, p) ==
    IF RunDigits(s, p) - p >= min THEN Ok(<<>>, RunDigits(s, p)) ELSE Fail("Mismatch", p)

\* (digit+ * `.` - digit*) | (`.` - digit+)
real_number(s, i) ==
    Or(Then(digits(1, s, i), LAMBDA d1 :
       Then(sym(46, s, d1.pos), LAMBDA dot : digits(0, s, dot.pos))),
       Then(sym(46, s, i), LAMBDA dot : digits(1, s, dot.pos)))

\* The collected text converts with f64::from_str; the f64 is determined by that
\* text, which the model keeps as the value.
real(s, p) ==
    Then(real_number(s, IF p < Len(s) /\ At(s, p) \in {43, 45} THEN p + 1 ELSE p),
         LAMBDA n : Ok(Slice(s, p, n.pos), n.pos))

hex_char(s, p) ==
    IF p + 2 <= Len(s) /\ is_ascii_hexdigit(At(s, p)) /\ is_ascii_hexdigit(At(s, p + 1))
    THEN Ok(16 * HexVal(At(s, p)) + HexVal(At(s, p + 1)), p + 2)
    ELSE Fail("Error", p)

\* take_while_m_n(1, 3, is_ascii_hexdigit): the end of the run, at most 3 bytes on.
oct_run(s, p) ==
    IF p < Len(s) /\ is_ascii_hexdigit(At(s, p))
    THEN IF p + 1 < Len(s) /\ is_ascii_hexdigit(At(s, p + 1))
         THEN IF p + 2 < Len(s) /\ is_ascii_hexdigit(At(s, p + 2)) THEN p + 3 ELSE p + 2
         ELSE p + 1
    ELSE p

\* u16::from_str_radix(x, 8).map(|o| o as u8)
oct_value(x, p, e) ==
    IF e = p \/ \E i \in 1..Len(x) : ~is_oct_digit(x[i]) THEN Fail("Error", p)
    ELSE Ok(OctVal(x) % 256, e)

oct_char(s, p) == oct_value(Slice(s, p, oct_run(s, p)), p, oct_run(s, p))

\* One iteration of name's many0: `#` and a hex pair, or one regular byte but `#`.
name_char(s, p) ==
    alt(Then(tag(B(<<"#">>), s, p), LAMBDA r : hex_char(s, r.pos)),
        IF p < Len(s) /\ At(s, p) # 35 /\ is_regular(At(s, p))
        THEN Ok(At(s, p), p + 1) ELSE Fail("Error", p))

RECURSIVE name_chars(_, _, _)
name_chars(s, p, acc) ==
    Loop(name_char(s, p),
         LAMBDA r : IF r.pos = p THEN Fail("Error", p)
                    ELSE name_chars(s, r.pos, Append(acc, r.val)),
         Ok(acc, p))

name(s, p) == Then(tag(B(<<"/">>), s, p), LAMBDA r : name_chars(s, r.pos, <<>>))

\* The first alternative of _escape_sequence: one byte after the backslash.
escape_char(s, i) ==
    IF i >= Len(s) THEN Fail("Error", i)
    ELSE IF At(s, i) \in {40, 41} THEN Ok(<<"Some", At(s, i)>>, i + 1)
    ELSE IF At(s, i) = Ord["n"] THEN Ok(<<"Some", 10>>, i + 1)
    ELSE IF At(s, i) = Ord["r"] THEN Ok(<<"Some", 13>>, i + 1)
    ELSE IF At(s, i) = Ord["t"] THEN Ok(<<"Some", 9>>, i + 1)
    ELSE IF At(s, i) = Ord["b"] THEN Ok(<<"Some", 8>>, i + 1)
    ELSE IF At(s, i) = Ord["f"] THEN Ok(<<"Some", 12>>, i + 1)
    ELSE IF At(s, i) = 92 THEN Ok(<<"Some", 92>>, i + 1)
    ELSE Fail("Error", i)

_escape_sequence(s, p) ==
    Then(tag(B(<<"\\">>), s, p), LAMBDA r :
        alt(escape_char(s, r.pos),
        alt(Then(oct_char(s, r.pos), LAMBDA o : Ok(<<"Some", o.val>>, o.pos)),
            Const(eol(s, r.pos), <<"None">>))))

escape_sequence(s, p) ==
    Then(_escape_sequence(s, p), LAMBDA r :
        IF r.val[1] = "Some" THEN Ok(<<r.val[2]>>, r.pos) ELSE Ok(<<>>, r.pos))

\* none_of(b"\\()").repeat(1..)
RECURSIVE RunPlain(_, _)
RunPlain(s, p) == IF p < Len(s) /\ At(s, p) \notin {92, 40, 41} THEN RunPlain(s, p + 1) ELSE p
plain_run(s, p) ==
    IF RunPlain(s, p) > p THEN Ok(Slice(s, p, RunPlain(s, p)), RunPlain(s, p))
    ELSE Fail("Mismatch", p)

RECURSIVE nested_literal_string(_, _), string_segment(_, _), string_segments(_, _, _)

\* One iteration of the repeat(0..) of a literal string: a plain run, an escape
\* sequence or a nested, balanced string.
string_segment(s, p) ==
    Or(plain_run(s, p),
    Or(nom_to_pom(escape_sequence(s, p), s, p),
       nested_literal_string(s, p)))

string_segments(s, p, acc) ==
    Loop(string_segment(s, p),
         LAMBDA r : string_segments(s, r.pos, acc \o r.val),
         Ok(acc, p))

nested_literal_string(s, p) ==
    Then(sym(40, s, p), LAMBDA r1 :
    Then(string_segments(s, r1.pos, <<40>>), LAMBDA r2 :
    Then(sym(41, s, r2.pos), LAMBDA r3 : Ok(Append(r2.val, 41), r3.pos))))

literal_string(s, p) ==
    Then(sym(40, s, p), LAMBDA r1 :
    Then(string_segments(s, r1.pos, <<>>), LAMBDA r2 :
    Then(sym(41, s, r2.pos), LAMBDA r3 : Ok(r2.val, r3.pos))))

\* One iteration of the repeat(0..) of a hexadecimal string.
hex_pair(s, p) ==
    Then(nom_to_pom(white_space(s, p), s, p), LAMBDA w :
    nom_to_pom(hex_char(s, w.pos), s, w.pos))

RECURSIVE hex_pairs(_, _, _)
hex_pairs(s, p, acc) ==
    Loop(hex_pair(s, p),
         LAMBDA r : hex_pairs(s, r.pos, Append(acc, r.val)),
         Ok(acc, p))

hexadecimal_string(s, p) ==
    Then(sym(60, s, p), LAMBDA r1 :
    Then(hex_pairs(s, r1.pos, <<>>), LAMBDA r2 :
    Then(nom_to_pom(white_space(s, r2.pos), s, r2.pos), LAMBDA w :
    Then(sym(62, s, w.pos), LAMBDA r3 : Ok(r2.val, r3.pos)))))

boolean(s, p) ==
    alt(Const(tag(B(<<"t","r","u","e">>), s, p), <<"Boolean", TRUE>>),
        Const(tag(B(<<"f","a","l","s","e">>), s, p), <<"Boolean", FALSE>>))

null(s, p) == Const(tag(B(<<"n","u","l","l">>), s, p), <<"Null">>)

----------------------------------------------------------------------------
(* The object model (declared outside nom_parser.rs) *)

\* Dictionary::set: a dictionary is a sequence of <<key, value>> with unique keys.
DictSet(dict, key, value) ==
    IF \E i \in 1..Len(dict) : dict[i][1] = key
    THEN [i \in 1..Len(dict) |-> IF dict[i][1] = key THEN <<key, value>> ELSE dict[i]]
    ELSE Append(dict, <<key, value>>)

\* Dictionary::get: an Option.
DictGet(dict, key) ==
    IF \E i \in 1..Len(dict) : dict[i][1] = key
    THEN <<"Some", dict[CHOOSE i \in 1..Len(dict) : dict[i][1] = key][2]>>
    ELSE <<"None">>

\* Object::as_i64 and Object::as_reference: Options.
as_i64(obj) == IF obj[1] = "Integer" THEN <<"Some", obj[2]>> ELSE <<"None">>
as_reference(obj) == IF obj[1] = "Reference" THEN <<"Some", obj[2]>> ELSE <<"None">>

\* Stream::new and Stream::with_position: <<dict, content, start_position>>.
StreamNew(dict, data) == <<dict, data, <<"None">>>>
StreamWithPosition(dict, position) == <<dict, <<>>, <<"Some", position>>>>

\* Reader::get_object: the reader is a table from object ids to objects.
get_object(rd, id) == IF id \in DOMAIN rd THEN <<"Some", rd[id]>> ELSE <<"None">>

----------------------------------------------------------------------------
(* Object grammar *)

\* one_of(b"0123456789").repeat(1..).convert(FromStr) into an unsigned below max
unsigned_value(max, s, p, e) ==
    IF e = p THEN Fail("Mismatch", p)
    ELSE IF ~DecLeq(Slice(s, p, e), max) THEN Fail("Conversion", p)
    ELSE Ok(DecVal(Slice(s, p, e)), e)
unsigned(max, s, p) == unsigned_value(max, s, p, RunDigits(s, p))

\* id - nom_to_pom(space) + gen - nom_to_pom(space)
object_id(s, p) ==
    Then(unsigned(U32Max, s, p), LAMBDA id :
    Then(nom_to_pom(space(s, id.pos), s, id.pos), LAMBDA sp1 :
    Then(unsigned(U16Max, s, sp1.pos), LAMBDA gen :
    Then(nom_to_pom(space(s, gen.pos), s, gen.pos), LAMBDA sp2 :
    Ok(<<id.val, gen.val>>, sp2.pos)))))

\* A reference alternative that never matches: the integer alternative wins.
reference_never(s, p) == Fail("Mismatch", p)

\* object_id().map(Object::Reference) - sym(b'R')
reference(s, p) ==
    Then(object_id(s, p), LAMBDA r :
    Then(sym(Ord["R"], s, r.pos), LAMBDA k : Ok(<<"Reference", r.val>>, k.pos)))

Map(r, variant) == IF r.ok THEN Ok(<<variant, r.val>>, r.pos) ELSE r
MapString(r, format) == IF r.ok THEN Ok(<<"String", r.val, format>>, r.pos) ELSE r

\* p - nom_to_pom(space)
ThenSpace(r, s) ==
    Then(r, LAMBDA v :
    Then(nom_to_pom(space(s, v.pos), s, v.pos), LAMBDA sp : Ok(v.val, sp.pos)))

RECURSIVE direct_object(_, _), array(_, _), array_items(_, _, _)
RECURSIVE dictionary(_, _), dictionary_entry(_, _), dictionary_entries(_, _, _)

array_items(s, p, acc) ==
    Loop(direct_object(s, p),
         LAMBDA r : array_items(s, r.pos, Append(acc, r.val)),
         Ok(acc, p))

array(s, p) ==
    Then(sym(91, s, p), LAMBDA r1 :
    Then(nom_to_pom(space(s, r1.pos), s, r1.pos), LAMBDA sp :
    Then(array_items(s, sp.pos, <<>>), LAMBDA r2 :
    Then(sym(93, s, r2.pos), LAMBDA r3 : Ok(r2.val, r3.pos)))))

\* entry = nom_to_pom(name) - nom_to_pom(space) + call(direct_object)
dictionary_entry(s, p) ==
    Then(nom_to_pom(name(s, p), s, p), LAMBDA k :
    Then(nom_to_pom(space(s, k.pos), s, k.pos), LAMBDA sp :
    Then(direct_object(s, sp.pos), LAMBDA v : Ok(<<k.val, v.val>>, v.pos))))

dictionary_entries(s, p, dict) ==
    Loop(dictionary_entry(s, p),
         LAMBDA r : dictionary_entries(s, r.pos, DictSet(dict, r.val[1], r.val[2])),
         Ok(dict, p))

dictionary(s, p) ==
    Then(seq(B(<<"<","<">>), s, p), LAMBDA r1 :
    Then(nom_to_pom(space(s, r1.pos), s, r1.pos), LAMBDA sp :
    Then(dictionary_entries(s, sp.pos, <<>>), LAMBDA r2 :
    Then(seq(B(<<">",">">>), s, r2.pos), LAMBDA r3 : Ok(r2.val, r3.pos)))))

direct_object(s, p) ==
    ThenSpace(
        Or(nom_to_pom(null(s, p), s, p),
        Or(nom_to_pom(boolean(s, p), s, p),
        Or(reference(s, p),
        Or(Map(real(s, p), "Real"),
        Or(Map(nom_to_pom(integer(s, p), s, p), "Integer"),
        Or(Map(nom_to_pom(name(s, p), s, p), "Name"),
        Or(MapString(literal_string(s, p), "Literal"),
        Or(MapString(hexadecimal_string(s, p), "Hexadecimal"),
        Or(Map(array(s, p), "Array"),
           Map(dictionary(s, p), "Dictionary")))))))))),
        s)

\* take(length as usize): a negative length casts to 2^64 + length, and
\* start + n then overflows (a panic in a checked build; in an unchecked build
\* it wraps below start and the slice &input[start..pos] panics) unless
\* start < -length, where the sum exceeds every input length.
take_length(length, s, p) ==
    IF length >= 0 THEN take(length, s, p)
    ELSE IF p >= -length THEN Fail("Panic", p)
    ELSE Fail("Incomplete", p)

\* A resolution that takes an unresolved reference for a length of 0.
resolve_length_or_zero(rd, value) ==
    IF as_reference(value)[1] = "Some"
    THEN IF get_object(rd, as_reference(value)[2])[1] = "Some"
         THEN as_i64(get_object(rd, as_reference(value)[2])[2])
         ELSE <<"Some", 0>>
    ELSE as_i64(value)

\* value.as_reference() resolved through the reader, or value.as_i64()
resolve_length(rd, value) ==
    IF as_reference(value)[1] = "Some"
    THEN IF get_object(rd, as_reference(value)[2])[1] = "Some"
         THEN as_i64(get_object(rd, as_reference(value)[2])[2])
         ELSE <<"None">>
    ELSE as_i64(value)

\* dict.get(b"Length").and_then(...)
stream_length(rd, dict) ==
    IF DictGet(dict, B(<<"L","e","n","g","t","h">>))[1] = "None" THEN <<"None">>
    ELSE resolve_length(rd, DictGet(dict, B(<<"L","e","n","g","t","h">>))[2])

\* The keyword without expect(): an ordinary mismatch.
endstream_unexpected(s, p) == seq(B(<<"e","n","d","s","t","r","e","a","m">>), s, p)

\* seq(b"endstream").expect("endstream")
expect_endstream(s, p) ==
    IF seq(B(<<"e","n","d","s","t","r","e","a","m">>), s, p).ok
    THEN seq(B(<<"e","n","d","s","t","r","e","a","m">>), s, p)
    ELSE Fail("Expect", p)

\* A body that does not skip the optional end-of-line after the payload.
stream_body_without_eol(length, dict, s, p) ==
    Then(take_length(length, s, p), LAMBDA data :
    Then(expect_endstream(s, data.pos), LAMBDA kw : Ok(StreamNew(dict, data.val), kw.pos)))

\* take(length) - nom_to_pom(eol).opt() - seq(b"endstream").expect("endstream")
stream_body(length, dict, s, p) ==
    Then(take_length(length, s, p), LAMBDA data :
    Then(Opt(nom_to_pom(eol(s, data.pos), s, data.pos), data.pos), LAMBDA e :
    Then(expect_endstream(s, e.pos), LAMBDA kw : Ok(StreamNew(dict, data.val), kw.pos))))

\* The closure after `>>`: the payload of a known length, or the deferred position.
stream_rest(length, dict, s, p) ==
    IF length[1] = "Some" THEN stream_body(length[2], dict, s, p)
    ELSE Ok(StreamWithPosition(dict, p), p)

stream(rd, s, p) ==
    Then(dictionary(s, p), LAMBDA d :
    Then(nom_to_pom(space(s, d.pos), s, d.pos), LAMBDA sp :
    Then(seq(B(<<"s","t","r","e","a","m">>), s, sp.pos), LAMBDA kw :
    Then(nom_to_pom(eol(s, kw.pos), s, kw.pos), LAMBDA e :
    stream_rest(stream_length(rd, d.val), d.val, s, e.pos)))))

object(rd, s, p) ==
    ThenSpace(
        Or(nom_to_pom(null(s, p), s, p),
        Or(nom_to_pom(boolean(s, p), s, p),
        Or(reference(s, p),
        Or(Map(real(s, p), "Real"),
        Or(Map(nom_to_pom(integer(s, p), s, p), "Integer"),
        Or(Map(nom_to_pom(name(s, p), s, p), "Name"),
        Or(MapString(literal_string(s, p), "Literal"),
        Or(MapString(hexadecimal_string(s, p), "Hexadecimal"),
        Or(Map(array(s, p), "Array"),
        Or(Map(stream(rd, s, p), "Stream"),
           Map(dictionary(s, p), "Dictionary"))))))))))),
        s)

\* object_id() - seq(b"obj") - space + object(reader) - space - seq(b"endobj").opt() - space
indirect_object(rd, s, p) ==
    Then(object_id(s, p), LAMBDA id :
    Then(seq(B(<<"o","b","j">>), s, id.pos), LAMBDA kw :
    Then(nom_to_pom(space(s, kw.pos), s, kw.pos), LAMBDA sp1 :
    Then(object(rd, s, sp1.pos), LAMBDA obj :
    Then(nom_to_pom(space(s, obj.pos), s, obj.pos), LAMBDA sp2 :
    Then(Opt(seq(B(<<"e","n","d","o","b","j">>), s, sp2.pos), sp2.pos), LAMBDA endobj :
    Then(nom_to_pom(space(s, endobj.pos), s, endobj.pos), LAMBDA sp3 :
    Ok(<<id.val, obj.val>>, sp3.pos))))))))

----------------------------------------------------------------------------
(* Document-structure grammar *)

\* Casts of an i64.  The numbers of the model stay below 2^31, where `as u32` and
\* `as usize` are the identity on non-negative values.
AsU16(i) == i % 65536
AsU32(i) == IF i >= 0 THEN i ELSE i % (65536 * 65536)
AsUsize(i) == IF i >= 0 THEN i ELSE i % (65536 * 65536 * 65536 * 65536)

\* nom_to_pom(comment).repeat(0..)
RECURSIVE header_comments(_, _)
header_comments(s, p) ==
    Loop(nom_to_pom(comment(s, p), s, p),
         LAMBDA r : header_comments(s, r.pos),
         Ok(<<>>, p))

\* none_of(b"\r\n").repeat(0..).convert(String::from_utf8): ASCII text converts.
version(s, p) ==
    IF \E i \in p + 1..RunNotEol(s, p) : s[i] >= 128 THEN Fail("Conversion", p)
    ELSE Ok(Slice(s, p, RunNotEol(s, p)), RunNotEol(s, p))

header(s, p) ==
    Then(seq(B(<<"%","P","D","F","-">>), s, p), LAMBDA r1 :
    Then(version(s, r1.pos), LAMBDA v :
    Then(nom_to_pom(eol(s, v.pos), s, v.pos), LAMBDA r2 :
    Then(header_comments(s, r2.pos), LAMBDA r3 : Ok(v.val, r3.pos)))))

\* Xref::new(size) and Xref::insert: entries is a table keyed by object number.
XrefNew(size) == [entries |-> <<>>, size |-> size]
XrefInsert(x, id, e) == [x EXCEPT !.entries = (id :> e) @@ x.entries]

\* one_of(b"nf").map(|k| k == b'n')
entry_type(s, p) ==
    IF p >= Len(s) THEN Fail("Incomplete", p)
    ELSE IF At(s, p) \in {Ord["n"], Ord["f"]} THEN Ok(At(s, p) = Ord["n"], p + 1)
    ELSE Fail("Mismatch", p)

\* <<<<offset, generation>>, is_normal>>
xref_entry(s, p) ==
    Then(nom_to_pom(integer(s, p), s, p), LAMBDA offset :
    Then(sym(32, s, offset.pos), LAMBDA b1 :
    Then(nom_to_pom(integer(s, b1.pos), s, b1.pos), LAMBDA generation :
    Then(sym(32, s, generation.pos), LAMBDA b2 :
    Then(entry_type(s, b2.pos), LAMBDA k :
    Then(take(2, s, k.pos), LAMBDA pad :
    Ok(<<<<AsU32(offset.val), AsU16(generation.val)>>, k.val>>, pad.pos)))))))

\* xref_entry.repeat(0..)
RECURSIVE xref_entries(_, _, _)
xref_entries(s, p, acc) ==
    Loop(xref_entry(s, p),
         LAMBDA r : xref_entries(s, r.pos, Append(acc, r.val)),
         Ok(acc, p))

\* <<<<start, count>>, entries>>
xref_section(s, p) ==
    Then(nom_to_pom(integer(s, p), s, p), LAMBDA start :
    Then(sym(32, s, start.pos), LAMBDA b1 :
    Then(nom_to_pom(integer(s, b1.pos), s, b1.pos), LAMBDA count :
    Then(Opt(sym(32, s, count.pos), count.pos), LAMBDA b2 :
    Then(nom_to_pom(eol(s, b2.pos), s, b2.pos), LAMBDA e :
    Then(xref_entries(s, e.pos, <<>>), LAMBDA entries :
    Ok(<<<<AsUsize(start.val), count.val>>, entries.val>>, entries.pos)))))))

\* xref_section.repeat(1..)
RECURSIVE xref_sections(_, _, _)
xref_sections(s, p, acc) ==
    Loop(xref_section(s, p),
         LAMBDA r : xref_sections(s, r.pos, Append(acc, r.val)),
         IF acc = <<>> THEN Fail("Mismatch", p) ELSE Ok(acc, p))

\* The inner loop of xref's fold: the in-use entries of one section, from index on.
\* A fold that inserts the free entries as well.
RECURSIVE insert_entries_and_free(_, _, _, _)
insert_entries_and_free(x, start, entries, index) ==
    IF index >= Len(entries) THEN x
    ELSE insert_entries_and_free(
             XrefInsert(x, AsU32(start + index),
                        <<"Normal", entries[index + 1][1][1], entries[index + 1][1][2]>>),
             start, entries, index + 1)

RECURSIVE insert_entries(_, _, _, _)
insert_entries(x, start, entries, index) ==
    IF index >= Len(entries) THEN x
    ELSE insert_entries(
             IF entries[index + 1][2]
             THEN XrefInsert(x, AsU32(start + index),
                             <<"Normal", entries[index + 1][1][1], entries[index + 1][1][2]>>)
             ELSE x,
             start, entries, index + 1)

RECURSIVE fold_sections(_, _)
fold_sections(x, sections) ==
    IF sections = <<>> THEN x
    ELSE fold_sections(insert_entries(x, sections[1][1][1], sections[1][2], 0), Tail(sections))

xref(s, p) ==
    Then(seq(B(<<"x","r","e","f">>), s, p), LAMBDA r1 :
    Then(nom_to_pom(eol(s, r1.pos), s, r1.pos), LAMBDA r2 :
    Then(xref_sections(s, r2.pos, <<>>), LAMBDA r3 :
    Then(nom_to_pom(space(s, r3.pos), s, r3.pos), LAMBDA sp :
    Ok(fold_sections(XrefNew(0), r3.val), sp.pos)))))

trailer(s, p) ==
    Then(seq(B(<<"t","r","a","i","l","e","r">>), s, p), LAMBDA r1 :
    Then(nom_to_pom(space(s, r1.pos), s, r1.pos), LAMBDA sp :
    ThenSpace(dictionary(s, sp.pos), s)))

\* The external decoder of a cross-reference stream, kept as an opaque value.
decode_xref_stream(st) == <<"decode_xref_stream", st>>

\* trailer.get(b"Size").and_then(Object::as_i64).expect(...): a panic when absent.
with_size(x, t, size, p, e) ==
    IF size[1] = "None" THEN Fail("Panic", p)
    ELSE IF as_i64(size[2])[1] = "None" THEN Fail("Panic", p)
    ELSE Ok(<<[x EXCEPT !.size = AsU32(as_i64(size[2])[2])], t>>, e)

xref_and_trailer(rd, s, p) ==
    Or(Then(xref(s, p), LAMBDA x :
       Then(trailer(s, x.pos), LAMBDA t :
       with_size(x.val, t.val, DictGet(t.val, B(<<"S","i","z","e">>)), p, t.pos))),
       Then(indirect_object(rd, s, p), LAMBDA io :
       IF io.val[2][1] = "Stream" THEN Ok(decode_xref_stream(io.val[2][2]), io.pos)
       ELSE Fail("Conversion", p)))

xref_start(s, p) ==
    Then(seq(B(<<"s","t","a","r","t","x","r","e","f">>), s, p), LAMBDA r1 :
    Then(nom_to_pom(eol(s, r1.pos), s, r1.pos), LAMBDA r2 :
    Then(nom_to_pom(integer(s, r2.pos), s, r2.pos), LAMBDA r3 :
    Then(nom_to_pom(eol(s, r3.pos), s, r3.pos), LAMBDA r4 :
    Then(seq(B(<<"%","%","E","O","F">>), s, r4.pos), LAMBDA r5 :
    ThenSpace(Ok(r3.val, r5.pos), s))))))

----------------------------------------------------------------------------
(* Content-stream grammar *)

\* One iteration of content_space's repeat(0..): is_a(multispace).
content_space_item(s, p) ==
    IF p >= Len(s) THEN Fail("Incomplete", p)
    ELSE IF multispace(At(s, p)) THEN Ok(At(s, p), p + 1)
    ELSE Fail("Mismatch", p)

RECURSIVE content_space(_, _)
content_space(s, p) ==
    Loop(content_space_item(s, p),
         LAMBDA r : content_space(s, r.pos),
         Ok(<<>>, p))

\* (is_a(alpha) | one_of(b"*'\"")).repeat(1..)
RECURSIVE RunOperator(_, _)
RunOperator(s, p) ==
    IF p < Len(s) /\ (alpha(At(s, p)) \/ At(s, p) \in {42, 39, 34})
    THEN RunOperator(s, p + 1) ELSE p

operator(s, p) ==
    IF RunOperator(s, p) > p THEN Ok(Slice(s, p, RunOperator(s, p)), RunOperator(s, p))
    ELSE Fail("Mismatch", p)

\* p - content_space()
ThenContentSpace(r, s) ==
    Then(r, LAMBDA v :
    Then(content_space(s, v.pos), LAMBDA sp : Ok(v.val, sp.pos)))

operand(s, p) ==
    ThenContentSpace(
        Or(nom_to_pom(null(s, p), s, p),
        Or(nom_to_pom(boolean(s, p), s, p),
        Or(Map(real(s, p), "Real"),
        Or(Map(nom_to_pom(integer(s, p), s, p), "Integer"),
        Or(Map(nom_to_pom(name(s, p), s, p), "Name"),
        Or(MapString(literal_string(s, p), "Literal"),
        Or(MapString(hexadecimal_string(s, p), "Hexadecimal"),
        Or(Map(array(s, p), "Array"),
           Map(dictionary(s, p), "Dictionary"))))))))),
        s)

\* operand().repeat(0..)
RECURSIVE operands(_, _, _)
operands(s, p, acc) ==
    Loop(operand(s, p),
         LAMBDA r : operands(s, r.pos, Append(acc, r.val)),
         Ok(acc, p))

\* [operator |-> ..., operands |-> ...]
operation(s, p) ==
    Then(operands(s, p, <<>>), LAMBDA r1 :
    Then(operator(s, r1.pos), LAMBDA r2 :
    ThenContentSpace(Ok([operator |-> r2.val, operands |-> r1.val], r2.pos), s)))

\* operation().repeat(0..)
RECURSIVE operations(_, _, _)
operations(s, p, acc) ==
    Loop(operation(s, p),
         LAMBDA r : operations(s, r.pos, Append(acc, r.val)),
         Ok(acc, p))

content(s, p) ==
    Then(content_space(s, p), LAMBDA sp : operations(s, sp.pos, <<>>))

----------------------------------------------------------------------------
(* Stream objects: the inputs *)

MaxLength == 3      \* declared stream lengths 0..MaxLength
MaxPayload == 3     \* bytes between the end-of-line after `stream` and the tail
BigLength == 99     \* a declared length beyond every input of the model

RECURSIVE Dec(_)
Dec(n) == IF n < 10 THEN <<48 + n>> ELSE Dec(n \div 10) \o <<48 + (n % 10)>>

KwStream == B(<<"s","t","r","e","a","m">>)
KwEndstream == B(<<"e","n","d","s","t","r","e","a","m">>)
KeyLength == B(<<"L","e","n","g","t","h">>)
ObjPrefix == B(<<"1"," ","0"," ","o","b","j","LF">>)
ObjSuffix == B(<<"LF","e","n","d","o","b","j","LF">>)
LengthId == <<5, 0>>

Lengths == (0..MaxLength) \cup {BigLength}

\* How the dictionary states the length, and what the reader answers for LengthId.
StreamCases ==
    {[kind |-> "int", n |-> n, rd |-> "none"] : n \in Lengths}
    \cup {[kind |-> "ref", n |-> n, rd |-> "int"] : n \in Lengths}
    \cup {[kind |-> "ref", n |-> 0, rd |-> "none"], [kind |-> "ref", n |-> 0, rd |-> "name"],
          [kind |-> "absent", n |-> 0, rd |-> "none"], [kind |-> "name", n |-> 0, rd |-> "none"],
          [kind |-> "neg", n |-> 1, rd |-> "none"]}

DictBytes(c) ==
    B(<<"<","<">>) \o
    (CASE c.kind = "int" -> B(<<"/">>) \o KeyLength \o B(<<" ">>) \o Dec(c.n)
       [] c.kind = "neg" -> B(<<"/">>) \o KeyLength \o B(<<" ","-">>) \o Dec(c.n)
       [] c.kind = "ref" -> B(<<"/">>) \o KeyLength \o B(<<" ","5"," ","0"," ","R">>)
       [] c.kind = "name" -> B(<<"/">>) \o KeyLength \o B(<<" ","/","N">>)
       [] c.kind = "absent" -> B(<<"/","K"," ","1">>))
    \o B(<<">",">">>)

ReaderOf(c) ==
    CASE c.rd = "int" -> (LengthId :> <<"Integer", c.n>>)
      [] c.rd = "name" -> (LengthId :> <<"Name", B(<<"N">>)>>)
      [] c.rd = "none" -> <<>>

Gaps == {<<>>, B(<<" ","%","c","LF">>)}
Eols == {B(<<"CR","LF">>), B(<<"LF">>), B(<<"CR">>)}
PayloadBytes == {Ord["a"], Ord["LF"]}
Payloads == UNION {[1..k -> PayloadBytes] : k \in 0..MaxPayload}
\* What follows the payload: an optional end-of-line and the keyword, a keyword
\* cut short, or nothing at all (a truncated buffer).
Tails ==
    {[opteol |-> e, kw |-> k, rest |-> ObjSuffix] :
        e \in {<<>>, B(<<"LF">>), B(<<"CR","LF">>)},
        k \in {KwEndstream, B(<<"e","n","d","s","t","r","e","a">>)}}
    \cup {[opteol |-> <<>>, kw |-> <<>>, rest |-> <<>>]}

StreamInput(c, gap, e, payload, tl) ==
    ObjPrefix \o DictBytes(c) \o gap \o KwStream \o e \o payload \o tl.opteol \o tl.kw \o tl.rest

InitStream ==
    \E c \in StreamCases, gap \in Gaps, e \in Eols, payload \in Payloads, tl \in Tails :
        /\ parts = [case |-> c, gap |-> gap, eol |-> e, payload |-> payload, tail |-> tl]
        /\ input = StreamInput(c, gap, e, payload, tl)
        /\ reader = ReaderOf(c)
        /\ entry = "none"
        /\ result = Fail("None", 0)
        /\ pc = "ready"
        /\ pos = Len(ObjPrefix)

DoStream ==
    /\ pc = "ready"
    /\ entry' = "stream"
    /\ result' = stream(reader, input, pos)
    /\ pc' = "done"
    /\ UNCHANGED <<input, parts, reader, pos>>

DoObject ==
    /\ pc = "ready"
    /\ entry' = "object"
    /\ result' = object(reader, input, pos)
    /\ pc' = "done"
    /\ UNCHANGED <<input, parts, reader, pos>>

DoIndirectObject ==
    /\ pc = "ready"
    /\ entry' = "indirect_object"
    /\ result' = indirect_object(reader, input, 0)
    /\ pc' = "done"
    /\ UNCHANGED <<input, parts, reader, pos>>

NextStream == DoStream \/ DoObject \/ DoIndirectObject
SpecStream == InitStream /\ [][NextStream]_vars

(* Where the pieces of a stream input lie *)

\* The offset of the keyword `stream` and the offset just after it.
KwStreamPos == Len(ObjPrefix) + Len(DictBytes(parts.case)) + Len(parts.gap)
KwStreamEnd == KwStreamPos + Len(KwStream)
\* The end of one end-of-line at q, a CR LF pair being one end-of-line.
EolEndAt(q) ==
    IF q + 1 < Len(input) /\ At(input, q) = 13 /\ At(input, q + 1) = 10 THEN q + 2
    ELSE IF q < Len(input) /\ At(input, q) \in {13, 10} THEN q + 1
    ELSE q
\* The offset just after the end-of-line that follows `stream`.
PayloadStart == EolEndAt(KwStreamEnd)
\* The offset of the keyword that ends the input's tail.
TailKwPos == Len(input) - Len(parts.tail.rest) - Len(parts.tail.kw)
EndstreamAt(q) ==
    q + Len(KwEndstream) <= Len(input) /\ Slice(input, q, q + Len(KwEndstream)) = KwEndstream
\* The length is known: a direct integer, or a reference the reader resolves to one.
KnownLength ==
    parts.case.kind = "int" \/ (parts.case.kind = "ref" /\ parts.case.rd = "int")
DeclaredLength == parts.case.n
\* Between the end-of-line after `stream` and the optional end-of-line before
\* `endstream` lie at least, or exactly, DeclaredLength bytes.
AtLeastDeclared ==
    /\ parts.tail.kw = KwEndstream
    /\ \E q \in PayloadStart + DeclaredLength..TailKwPos : EolEndAt(q) = TailKwPos \/ q = TailKwPos
ExactlyDeclared ==
    /\ parts.tail.kw = KwEndstream
    /\ PayloadStart + DeclaredLength <= TailKwPos
    /\ \/ PayloadStart + DeclaredLength = TailKwPos
       \/ EolEndAt(PayloadStart + DeclaredLength) = TailKwPos

\* C1 as stated: with a known length n and at least n bytes before the optional
\* end-of-line and `endstream`, stream() returns a materialized Stream whose
\* payload is the n bytes after the end-of-line that follows `stream`.
C1_AtLeastLengthBytes ==
    (pc = "done" /\ entry = "stream" /\ KnownLength /\ AtLeastDeclared) =>
        /\ result.ok
        /\ result.val[2] = Slice(input, PayloadStart, PayloadStart + DeclaredLength)
        /\ result.val[3] = <<"None">>

\* C1 amended: with a known length n (a direct integer, or a reference the reader
\* resolves to Integer(n)) and exactly n bytes between the end-of-line after
\* `stream` and the optional end-of-line before `endstream`, stream() returns a
\* materialized Stream whose payload is those n bytes and ends just after
\* `endstream`, the same for the reference as for the direct integer.
C1_ExactLengthBytes ==
    (pc = "done" /\ entry = "stream" /\ KnownLength /\ ExactlyDeclared) =>
        /\ result.ok
        /\ result.val[2] = Slice(input, PayloadStart, PayloadStart + DeclaredLength)
        /\ result.val[3] = <<"None">>
        /\ result.pos = TailKwPos + Len(KwEndstream)

C1_Witness ==
    /\ pc = "done" /\ entry = "stream"
    /\ parts.case.kind = "ref" /\ parts.case.rd = "int" /\ DeclaredLength = 2
    /\ parts.tail.opteol # <<>>
    /\ ExactlyDeclared
    /\ result.ok /\ Len(result.val[2]) = 2

\* The length cannot be resolved: no Length key, a Length that is neither an integer
\* nor a reference, a reference the reader does not know or resolves to a name.
UnknownLength ==
    \/ parts.case.kind \in {"absent", "name"}
    \/ parts.case.kind = "ref" /\ parts.case.rd \in {"none", "name"}

\* C2: when no length can be resolved, stream() succeeds with the deferred variant:
\* no payload, the recorded offset and the end position both the offset just after
\* the end-of-line that follows `stream`, whatever follows it.
C2_DeferredPosition ==
    (pc = "done" /\ entry = "stream" /\ UnknownLength) =>
        /\ result.ok
        /\ result.val[2] = <<>>
        /\ result.val[3] = <<"Some", PayloadStart>>
        /\ result.pos = PayloadStart

C2_Witness ==
    /\ pc = "done" /\ entry = "stream"
    /\ parts.case.kind = "ref" /\ parts.case.rd = "none"
    /\ parts.tail.kw # KwEndstream /\ Len(parts.payload) > 0
    /\ result.ok /\ result.val[3] = <<"Some", PayloadStart>>

\* The declared bytes are there, and what follows them and one optional end-of-line
\* is not `endstream`.
MissingEndstream ==
    /\ KnownLength
    /\ PayloadStart + DeclaredLength <= Len(input)
    /\ ~EndstreamAt(EolEndAt(PayloadStart + DeclaredLength))

\* C3: when the declared bytes are consumed and `endstream` does not follow,
\* object() and indirect_object() fail with the fatal expectation; they do not
\* fall back to the dictionary alternative.
C3_EndstreamExpected ==
    (pc = "done" /\ entry \in {"object", "indirect_object"} /\ MissingEndstream) =>
        /\ ~result.ok
        /\ result.err = "Expect"

C3_Witness ==
    /\ pc = "done" /\ entry = "indirect_object"
    /\ MissingEndstream /\ parts.tail.kw = KwEndstream
    /\ DeclaredLength < Len(parts.payload)
    /\ result.err = "Expect"

\* The declared length reaches beyond the end of the input.
LengthBeyondInput == KnownLength /\ PayloadStart + DeclaredLength > Len(input)

\* C9: when the known length exceeds the bytes that remain, stream() fails with an
\* ordinary failure, and object() and indirect_object() return the plain Dictionary
\* with the end position at the keyword `stream`.
C9_LengthBeyondInput ==
    (pc = "done" /\ LengthBeyondInput) =>
        /\ entry = "stream" => ~result.ok /\ result.err \notin {"Expect", "Panic"}
        /\ entry = "object" =>
            result.ok /\ result.val[1] = "Dictionary" /\ result.pos = KwStreamPos
        /\ entry = "indirect_object" =>
            /\ result.ok
            /\ result.val[1] = <<1, 0>>
            /\ result.val[2][1] = "Dictionary"
            /\ result.pos = KwStreamPos

C9_Witness ==
    /\ pc = "done" /\ entry = "indirect_object"
    /\ LengthBeyondInput /\ parts.tail.kw = KwEndstream
    /\ result.ok /\ result.val[2][1] = "Dictionary" /\ result.pos = KwStreamPos

----------------------------------------------------------------------------
(* Literal strings with an octal escape: the inputs *)

OctalDigits == {Ord["0"], Ord["3"], Ord["5"], Ord["7"]}
OctalRuns == UNION {[1..k -> OctalDigits] : k \in 1..3}
\* The byte after the digits of the escape: nothing, a byte that is no digit of any
\* base, a decimal digit that is not octal, a letter that is a hexadecimal digit.
OtherFollowers ==
    {<<>>, B(<<"x">>), B(<<" ">>), B(<<"8">>), B(<<"9">>),
     B(<<"a">>), B(<<"f">>), B(<<"A">>), B(<<"F">>)}
\* A fourth digit follows three digits only: after fewer it belongs to the escape.
FollowersOf(ds) ==
    IF Len(ds) = 3 THEN OtherFollowers \cup {B(<<"0">>), B(<<"7">>)} ELSE OtherFollowers
StringPrefixes == {<<>>, B(<<"t">>)}

StringInput(pre, ds, fol) == B(<<"(">>) \o pre \o B(<<"\\">>) \o ds \o fol \o B(<<")">>)

InitString ==
    \E pre \in StringPrefixes, ds \in OctalRuns :
        \E fol \in FollowersOf(ds) :
            /\ parts = [prefix |-> pre, digits |-> ds, follower |-> fol]
            /\ input = StringInput(pre, ds, fol)
            /\ reader = <<>>
            /\ entry = "none"
            /\ result = Fail("None", 0)
            /\ pc = "ready"
            /\ pos = 1 + Len(pre)

DoOctChar ==
    /\ pc = "ready"
    /\ entry' = "oct_char"
    /\ result' = oct_char(input, pos + 1)
    /\ pc' = "done"
    /\ UNCHANGED <<input, parts, reader, pos>>

DoEscapeSequence ==
    /\ pc = "ready"
    /\ entry' = "escape_sequence"
    /\ result' = escape_sequence(input, pos)
    /\ pc' = "done"
    /\ UNCHANGED <<input, parts, reader, pos>>

DoLiteralString ==
    /\ pc = "ready"
    /\ entry' = "literal_string"
    /\ result' = literal_string(input, 0)
    /\ pc' = "done"
    /\ UNCHANGED <<input, parts, reader, pos>>

NextString == DoOctChar \/ DoEscapeSequence \/ DoLiteralString
SpecString == InitString /\ [][NextString]_vars

\* The byte an octal escape stands for: the base-8 number modulo 256.
OctalByte == OctVal(parts.digits) % 256

\* C8: a backslash and one to three octal digits decode to the single byte of their
\* base-8 value modulo 256, and the byte after the digits is ordinary string
\* content: the escape ends after the digits and the whole string parses to the
\* prefix, that byte and the follower.
C8_OctalEscape ==
    /\ (pc = "done" /\ entry = "escape_sequence") =>
           /\ result.ok
           /\ result.val = <<OctalByte>>
           /\ result.pos = pos + 1 + Len(parts.digits)
    /\ (pc = "done" /\ entry = "literal_string") =>
           /\ result.ok
           /\ result.val = parts.prefix \o <<OctalByte>> \o parts.follower
           /\ result.pos = Len(input)

\* The part of C8 the code keeps: when the byte after the digits is no hexadecimal
\* digit, or three digits were read, the escape decodes as stated.
C8_OctalEscapeUnlessHexFollower ==
    (/\ pc = "done" /\ entry = "literal_string"
     /\ \/ Len(parts.digits) = 3
        \/ parts.follower = <<>>
        \/ ~is_ascii_hexdigit(parts.follower[1])) =>
        /\ result.ok
        /\ result.val = parts.prefix \o <<OctalByte>> \o parts.follower
        /\ result.pos = Len(input)

\* A literal string whose escape of one digit is followed by `8` does not parse.
C8_Failing ==
    /\ pc = "done" /\ entry = "literal_string"
    /\ parts.prefix = <<>> /\ parts.digits = B(<<"5">>) /\ parts.follower = B(<<"8">>)
    /\ ~result.ok

----------------------------------------------------------------------------
(* Content streams: the inputs *)

\* Operand texts: scalars, the tokens `id gen R` bare, inside arrays and as a
\* dictionary value, and containers without them.
OperandTexts ==
    {B(<<"1"," ","2"," ","R">>),
     B(<<"[","1"," ","2"," ","R","]">>),
     B(<<"[","[","1"," ","2"," ","R","]","]">>),
     B(<<"<","<","/","K"," ","1"," ","2"," ","R",">",">">>),
     B(<<"[","1"," ","2","]">>),
     B(<<"<","<","/","K"," ","1",">",">">>),
     B(<<"(","a",")">>),
     B(<<"/","N">>),
     B(<<"1",".","5">>),
     B(<<"7">>),
     B(<<"t","r","u","e">>)}
OperatorTexts == {B(<<"T","J">>), B(<<"T","*">>)}
OperandLists == {<<>>} \cup {<<a>> : a \in OperandTexts} \cup (OperandTexts \X OperandTexts)

RECURSIVE JoinOperands(_)
JoinOperands(ts) == IF ts = <<>> THEN <<>> ELSE ts[1] \o B(<<" ">>) \o JoinOperands(Tail(ts))

ContentInput(ts, op) == B(<<"LF">>) \o JoinOperands(ts) \o op \o B(<<"LF">>)

InitContent ==
    \E ts \in OperandLists, op \in OperatorTexts :
        /\ parts = [operands |-> ts, operator |-> op]
        /\ input = ContentInput(ts, op)
        /\ reader = <<>>
        /\ entry = "none"
        /\ result = Fail("None", 0)
        /\ pc = "ready"
        /\ pos = 1

DoOperand ==
    /\ pc = "ready"
    /\ entry' = "operand"
    /\ result' = operand(input, pos)
    /\ pc' = "done"
    /\ UNCHANGED <<input, parts, reader, pos>>

DoOperation ==
    /\ pc = "ready"
    /\ entry' = "operation"
    /\ result' = operation(input, pos)
    /\ pc' = "done"
    /\ UNCHANGED <<input, parts, reader, pos>>

DoContent ==
    /\ pc = "ready"
    /\ entry' = "content"
    /\ result' = content(input, 0)
    /\ pc' = "done"
    /\ UNCHANGED <<input, parts, reader, pos>>

NextContent == DoOperand \/ DoOperation \/ DoContent
SpecContent == InitContent /\ [][NextContent]_vars

\* An object is, or holds at some depth, a Reference or a Stream.
RECURSIVE HasReference(_)
HasReference(obj) ==
    CASE obj[1] \in {"Reference", "Stream"} -> TRUE
      [] obj[1] = "Array" -> \E i \in 1..Len(obj[2]) : HasReference(obj[2][i])
      [] obj[1] = "Dictionary" -> \E i \in 1..Len(obj[2]) : HasReference(obj[2][i][2])
      [] OTHER -> FALSE

RefTokens == B(<<"1"," ","2"," ","R">>)

\* C7: the Content returned by content() holds no Reference and no Stream in any
\* operation's operands, at any depth of arrays and dictionary values; the tokens
\* `id gen R` at operand level are two Integer operands of an operation `R`.
C7_NoReferenceInContent ==
    (pc = "done" /\ entry = "content") =>
        /\ result.ok
        /\ \A i \in 1..Len(result.val) :
               \A j \in 1..Len(result.val[i].operands) :
                   ~HasReference(result.val[i].operands[j])
        /\ parts.operands = <<RefTokens>> =>
               result.val[1] = [operator |-> B(<<"R">>),
                                operands |-> <<<<"Integer", 1>>, <<"Integer", 2>>>>]

\* The part of C7 the code keeps: no operand is itself a Reference or a Stream, and
\* the bare tokens `id gen R` are two Integer operands of an operation `R`.
C7_NoReferenceAtOperandLevel ==
    (pc = "done" /\ entry = "content") =>
        /\ result.ok
        /\ \A i \in 1..Len(result.val) :
               \A j \in 1..Len(result.val[i].operands) :
                   result.val[i].operands[j][1] \notin {"Reference", "Stream"}
        /\ parts.operands = <<RefTokens>> =>
               result.val[1] = [operator |-> B(<<"R">>),
                                operands |-> <<<<"Integer", 1>>, <<"Integer", 2>>>>]

----------------------------------------------------------------------------
(* Classic cross-reference tables: the inputs *)

MaxCount == 2       \* declared entry counts 0..MaxCount
MaxEntries == 2     \* entries that follow a section's header line: 0..MaxEntries

\* n in decimal, zero-padded to the width.
RECURSIVE Pad(_, _)
Pad(n, width) == IF width = 0 THEN <<>> ELSE Pad(n \div 10, width - 1) \o <<48 + (n % 10)>>

EntryRuns == UNION {[1..k -> {"n", "f"}] : k \in 0..MaxEntries}
SectionShapes == [start : {0, 1, 3}, count : 0..MaxCount, entries : EntryRuns]
\* One section, or two of which the second declares the entries it has.
Tables ==
    {<<a>> : a \in SectionShapes}
    \cup {<<a, b>> : a \in SectionShapes,
                     b \in {c \in SectionShapes : c.start # 0 /\ c.count = Len(c.entries)}}
\* How the table is written: the optional blank after `start count`, and the two
\* bytes that end an entry.
Styles ==
    {[blank |-> <<>>, pad |-> B(<<" ","LF">>)], [blank |-> B(<<" ">>), pad |-> B(<<"CR","LF">>)]}

\* The fields written in entry i (from 0) of section j (from 1).
OffsetOf(j, i) == 100 * j + 9 + i
GenerationOf(kind, i) == IF kind = "f" THEN 65535 ELSE i

EntryBytes(j, i, kind, style) ==
    Pad(OffsetOf(j, i), 10) \o B(<<" ">>) \o Pad(GenerationOf(kind, i), 5) \o B(<<" ">>)
    \o <<Ord[kind]>> \o style.pad

RECURSIVE EntriesBytes(_, _, _, _)
EntriesBytes(j, kinds, i, style) ==
    IF i >= Len(kinds) THEN <<>>
    ELSE EntryBytes(j, i, kinds[i + 1], style) \o EntriesBytes(j, kinds, i + 1, style)

SectionBytes(j, sec, style) ==
    Dec(sec.start) \o B(<<" ">>) \o Dec(sec.count) \o style.blank \o B(<<"LF">>)
    \o EntriesBytes(j, sec.entries, 0, style)

RECURSIVE SectionsBytes(_, _, _)
SectionsBytes(table, j, style) ==
    IF j > Len(table) THEN <<>>
    ELSE SectionBytes(j, table[j], style) \o SectionsBytes(table, j + 1, style)

KwXref == B(<<"x","r","e","f","LF">>)
TrailerBytes ==
    B(<<"t","r","a","i","l","e","r","LF","<","<","/","S","i","z","e"," ">>) \o Dec(6)
    \o B(<<">",">","LF">>)

XrefInput(table, style) == KwXref \o SectionsBytes(table, 1, style) \o TrailerBytes

InitXref ==
    \E table \in Tables, style \in Styles :
        /\ parts = [sections |-> table, style |-> style]
        /\ input = XrefInput(table, style)
        /\ reader = <<>>
        /\ entry = "none"
        /\ result = Fail("None", 0)
        /\ pc = "ready"
        /\ pos = Len(KwXref)

DoXrefSection ==
    /\ pc = "ready"
    /\ entry' = "xref_section"
    /\ result' = xref_section(input, pos)
    /\ pc' = "done"
    /\ UNCHANGED <<input, parts, reader, pos>>

DoXref ==
    /\ pc = "ready"
    /\ entry' = "xref"
    /\ result' = xref(input, 0)
    /\ pc' = "done"
    /\ UNCHANGED <<input, parts, reader, pos>>

DoXrefAndTrailer ==
    /\ pc = "ready"
    /\ entry' = "xref_and_trailer"
    /\ result' = xref_and_trailer(reader, input, 0)
    /\ pc' = "done"
    /\ UNCHANGED <<input, parts, reader, pos>>

NextXref == DoXrefSection \/ DoXref \/ DoXrefAndTrailer
SpecXref == InitXref /\ [][NextXref]_vars

(* What a table says *)

\* The entries written in the table: section j, index i within it.
WrittenEntries ==
    {<<j, i>> \in (1..Len(parts.sections)) \X (0..MaxEntries) :
        i < Len(parts.sections[j].entries)}
KeyOf(e) == parts.sections[e[1]].start + e[2]
KindOf(e) == parts.sections[e[1]].entries[e[2] + 1]
\* No object number is written twice.
NonOverlapping == \A e1, e2 \in WrittenEntries : KeyOf(e1) = KeyOf(e2) => e1 = e2
InUseEntries == {e \in WrittenEntries : KindOf(e) = "n"}

\* C5: for a table of non-overlapping sections, xref() accepts it and the mapping
\* has a key k exactly when some section with first object number start has at
\* index i an entry of type `n` with start + i = k; the value is Normal with that
\* entry's offset and generation; entries of type `f` give no key but keep their
\* index.
C5_XrefMapping ==
    (pc = "done" /\ entry = "xref" /\ NonOverlapping) =>
        /\ result.ok
        /\ DOMAIN result.val.entries = {KeyOf(e) : e \in InUseEntries}
        /\ \A e \in InUseEntries :
               result.val.entries[KeyOf(e)] =
                   <<"Normal", OffsetOf(e[1], e[2]), GenerationOf("n", e[2])>>

C5_Witness ==
    /\ pc = "done" /\ entry = "xref" /\ NonOverlapping
    /\ Len(parts.sections) = 2
    /\ parts.sections[1].start = 0 /\ parts.sections[1].entries = <<"f", "n">>
    /\ parts.sections[2].start = 3 /\ parts.sections[2].entries = <<"n", "f">>
    /\ result.ok
    /\ DOMAIN result.val.entries = {1, 3}
    /\ result.val.entries[3] = <<"Normal", 209, 0>>

\* C6: a section introduced by `start count` contributes exactly count entries:
\* with fewer entries after the header the section fails, with more it ends after
\* count entries, and xref() maps no object number start + i with i >= count from
\* that section.
C6_SectionEntryCount ==
    /\ (pc = "done" /\ entry = "xref_section") =>
           IF Len(parts.sections[1].entries) < parts.sections[1].count
           THEN ~result.ok
           ELSE result.ok /\ Len(result.val[2]) = parts.sections[1].count
    /\ (pc = "done" /\ entry = "xref" /\ NonOverlapping /\ result.ok) =>
           \A e \in InUseEntries :
               e[2] >= parts.sections[e[1]].count => KeyOf(e) \notin DOMAIN result.val.entries

\* What the code does with the declared count: nothing.  A section takes every
\* well-formed entry that follows its header line, whatever count says.
C6_CountIgnored ==
    (pc = "done" /\ entry = "xref_section") =>
        /\ result.ok
        /\ result.val[1] = <<parts.sections[1].start, parts.sections[1].count>>
        /\ Len(result.val[2]) = Len(parts.sections[1].entries)

----------------------------------------------------------------------------
(* References and integers: the inputs *)

FirstNumbers == {B(<<"1">>), B(<<"1","2">>), B(<<"+","1">>), B(<<"-","1">>)}
Separators == {B(<<" ">>), B(<<" ","%","c","LF">>)}
\* What follows the first number: a second number (fitting 16 bits or not, signed,
\* real), a name, or nothing.
SecondTokens ==
    {B(<<"0">>), B(<<"2">>), B(<<"6","5","5","3","5">>), B(<<"6","5","5","3","6">>),
     B(<<"+","2">>), B(<<"-","2">>), B(<<"2",".","5">>), B(<<"/","N">>), <<>>}
\* `R`, `R` running into a further letter, and tokens that are not `R`.
ThirdTokens == {B(<<"R">>), B(<<"R","x">>), B(<<"r">>), B(<<"o","b","j">>), B(<<"7">>), <<>>}
\* The tokens stand alone, as the elements of an array, or as a dictionary value.
Contexts ==
    {[name |-> "bare", open |-> <<>>, close |-> <<>>],
     [name |-> "array", open |-> B(<<"[">>), close |-> B(<<"]">>)],
     [name |-> "dictionary", open |-> B(<<"<","<","/","K"," ">>), close |-> B(<<">",">">>)]}

TokensInput(ctx, first, sep1, second, sep2, third) ==
    ctx.open \o first \o sep1 \o second \o sep2 \o third \o B(<<" ">>) \o ctx.close

InitTokens ==
    \E ctx \in Contexts, first \in FirstNumbers, sep1 \in Separators,
       second \in SecondTokens, sep2 \in {<<>>, B(<<" ">>)}, third \in ThirdTokens :
        /\ parts = [context |-> ctx, first |-> first, sep1 |-> sep1,
                    second |-> second, sep2 |-> sep2, third |-> third]
        /\ input = TokensInput(ctx, first, sep1, second, sep2, third)
        /\ reader = <<>>
        /\ entry = "none"
        /\ result = Fail("None", 0)
        /\ pc = "ready"
        /\ pos = 0

DoDirectObject ==
    /\ pc = "ready"
    /\ entry' = "direct_object"
    /\ result' = direct_object(input, pos)
    /\ pc' = "done"
    /\ UNCHANGED <<input, parts, reader, pos>>

NextTokens == DoDirectObject \/ DoObject
SpecTokens == InitTokens /\ [][NextTokens]_vars

(* What the tokens say *)

IsUnsignedText(t) == t # <<>> /\ \A i \in 1..Len(t) : is_ascii_digit(t[i])
\* unsigned integer, unsigned integer, the numbers fitting 32 and 16 bits
IsObjectIdText ==
    /\ IsUnsignedText(parts.first) /\ DecLeq(parts.first, U32Max)
    /\ IsUnsignedText(parts.second) /\ DecLeq(parts.second, U16Max)
\* ... and `R`
IsReferenceText == IsObjectIdText /\ parts.third = B(<<"R">>)
\* ... and the byte `R`, whatever follows it: the grammar has no tokenizer, and
\* direct_object() standing alone leaves the bytes after `R` unread.
IsReferencePrefix == IsObjectIdText /\ parts.third # <<>> /\ parts.third[1] = Ord["R"]
\* The offset after `R` and the blanks that follow it.
AfterR ==
    Len(parts.first) + Len(parts.sep1) + Len(parts.second) + Len(parts.sep2) + 1
    + (IF parts.third = B(<<"R">>) THEN 1 ELSE 0)
ReferenceWritten == <<"Reference", <<DecVal(parts.first), DecVal(parts.second)>>>>
\* The value of the first number, its sign included.
FirstInteger ==
    IF parts.first[1] = 45 THEN <<"Integer", -DecVal(Tail(parts.first))>>
    ELSE IF parts.first[1] = 43 THEN <<"Integer", DecVal(Tail(parts.first))>>
    ELSE <<"Integer", DecVal(parts.first)>>

\* Where the token after the first number starts: after the blanks and comments
\* that follow the number.
SecondTokenPos ==
    Len(parts.first) + Len(parts.sep1)
    + (IF parts.second = <<>>
       THEN Len(parts.sep2) + (IF parts.third = <<>> THEN 1 ELSE 0)
       ELSE 0)

\* C4: direct_object() and object() give a Reference exactly for the tokens
\* unsigned integer, unsigned integer, `R` with numbers that fit: standing alone
\* they are one Reference((id, gen)) consumed through `R` (the byte `R`: what
\* follows it is left unread, and fails an enclosing array); any other tokens after
\* a first integer give Integer(first) with only that number (and the blanks after
\* it) consumed; an array or a dictionary value holds a Reference in the first
\* case and in no other.
C4_ReferenceOrInteger ==
    (pc = "done" /\ entry \in {"direct_object", "object"}) =>
        /\ parts.context.name = "bare" =>
               /\ result.ok
               /\ IF IsReferencePrefix
                  THEN result.val = ReferenceWritten /\ result.pos = AfterR
                  ELSE /\ result.val = FirstInteger
                       /\ result.pos = SecondTokenPos
        /\ parts.context.name = "array" =>
               /\ IsReferenceText => result.ok /\ result.val = <<"Array", <<ReferenceWritten>>>>
               /\ (result.ok /\ ~IsReferenceText) =>
                      /\ ~HasReference(result.val)
                      /\ result.val[2][1] = FirstInteger
        /\ parts.context.name = "dictionary" =>
               /\ IsReferenceText =>
                      result.ok /\ result.val = <<"Dictionary", <<<<B(<<"K">>), ReferenceWritten>>>>>>
               /\ (result.ok /\ ~IsReferenceText) =>
                      /\ ~HasReference(result.val)
                      /\ result.val[2][1] = <<B(<<"K">>), FirstInteger>>

C4_Witness ==
    /\ pc = "done" /\ entry = "direct_object"
    /\ parts.context.name = "array"
    /\ parts.first = B(<<"1","2">>) /\ parts.second = B(<<"6","5","5","3","5">>)
    /\ parts.sep1 # B(<<" ">>) /\ parts.sep2 = <<>> /\ parts.third = B(<<"R">>)
    /\ result.ok /\ result.val = <<"Array", <<<<"Reference", <<12, 65535>>>>>>>>

\* A number that does not fit 16 bits is no generation: the first number alone
\* is an Integer.
C4_WitnessInteger ==
    /\ pc = "done" /\ entry = "object"
    /\ parts.context.name = "bare"
    /\ parts.second = B(<<"6","5","5","3","6">>) /\ parts.third = B(<<"R">>)
    /\ result.ok /\ result.val = <<"Integer", 1>> /\ result.pos = 2

----------------------------------------------------------------------------
(* Repetitions, one iteration at a time: the inputs *)

TextString ==
    B(<<"(","a","\\","n","\\","LF","(","b","(","c",")",")","\\","5","3","z",")">>)
TextHexString ==
    B(<<"<","4","1"," ","4"," ","2"," ","4",">">>)
TextArray ==
    B(<<"[","1"," ","2"," ","R"," ","/","N","#","4","1"," ","(","s",")"," ","[","t","r","u","e",
        "]"," ","1",".","5"," ","n","u","l","l","]">>)
TextDictionary ==
    B(<<"<","<","/","A"," ","1","/","B"," ","[","2","]","/","C"," ","<","<","/","D"," ","3",">",
        ">",">",">">>)
TextHeader ==
    B(<<"%","P","D","F","-","1",".","5","LF","%","c","1","LF","%","c","2","CR","LF","%","%",
        "LF","1"," ","0"," ","o","b","j">>)
TextXref ==
    B(<<"x","r","e","f","LF","0"," ","2","LF","0","0","0","0","0","0","0","0","0","0"," ","6",
        "5","5","3","5"," ","f"," ","LF","0","0","0","0","0","0","0","0","0","9"," ","0","0",
        "0","0","0"," ","n"," ","LF","3"," ","1","LF","0","0","0","0","0","0","0","0","2","0",
        " ","0","0","0","0","0"," ","n"," ","LF","t","r","a","i","l","e","r","LF","<","<","/",
        "S","i","z","e"," ","4",">",">","LF","s","t","a","r","t","x","r","e","f","LF","9","LF",
        "%","%","E","O","F","LF">>)
TextContent ==
    B(<<"1"," ","2"," ","m"," ","3"," ","4"," ","l"," ","S","LF","B","T"," ","(","a",")"," ",
        "T","j"," ","E","T">>)
TextSpace ==
    B(<<" ","TAB","LF","%","c","LF"," ","CR","LF","%","d","LF","x">>)
TextIndirectObject ==
    B(<<"1"," ","0"," ","o","b","j","LF","<","<","/","L","e","n","g","t","h"," ","2",">",">",
        "s","t","r","e","a","m","LF","a","b","LF","e","n","d","s","t","r","e","a","m","LF","e",
        "n","d","o","b","j","LF">>)
TextUnbalanced ==
    B(<<"(","[","<","<","(","/","[","\\","<","4">>)
ProgressInputs ==
    {<<>>, TextString, TextHexString, TextArray, TextDictionary, TextHeader,
     TextXref, TextContent, TextSpace, TextIndirectObject, TextUnbalanced}

\* The repetitions of the grammar, named after the parser that holds them: those
\* of nom (many0, many0_count) and those of pom (repeat).
Many0Repetitions == {"space", "name"}
RepeatRepetitions ==
    {"literal_string", "hexadecimal_string", "array", "dictionary", "header",
     "xref", "xref_section", "content_space", "operation", "content"}
EntryPoints ==
    {"direct_object", "indirect_object", "header", "xref_and_trailer", "xref_start", "content"}

\* The parser that one iteration of a repetition runs.
Item(kind, s, p) ==
    CASE kind = "space" -> space_item(s, p)
      [] kind = "name" -> name_char(s, p)
      [] kind = "literal_string" -> string_segment(s, p)
      [] kind = "hexadecimal_string" -> hex_pair(s, p)
      [] kind = "array" -> direct_object(s, p)
      [] kind = "dictionary" -> dictionary_entry(s, p)
      [] kind = "header" -> nom_to_pom(comment(s, p), s, p)
      [] kind = "xref" -> xref_section(s, p)
      [] kind = "xref_section" -> xref_entry(s, p)
      [] kind = "content_space" -> content_space_item(s, p)
      [] kind = "operation" -> operand(s, p)
      [] kind = "content" -> operation(s, p)

\* The public entry points.
EntryPoint(e, rd, s, p) ==
    CASE e = "direct_object" -> direct_object(s, p)
      [] e = "indirect_object" -> indirect_object(rd, s, p)
      [] e = "header" -> header(s, p)
      [] e = "xref_and_trailer" -> xref_and_trailer(rd, s, p)
      [] e = "xref_start" -> xref_start(s, p)
      [] e = "content" -> content(s, p)

\* Every input read from every offset: a repetition about to run its next
\* iteration there, or an entry point about to be called.  The parsers are pure
\* functions of the input and the offset; parts holds their outcomes, `items` at
\* every offset for the repetition and `calls` at the start for the entry points.
InitProgress ==
    \E s \in ProgressInputs :
        \E start \in 0..Len(s) :
            /\ input = s
            /\ reader = <<>>
            /\ result = Fail("None", 0)
            /\ pos = start
            /\ \/ /\ pc = "ready" /\ entry = "none"
                  /\ parts = [start |-> start, items |-> <<>>,
                              calls |-> [e \in EntryPoints |-> EntryPoint(e, <<>>, s, start)]]
               \/ /\ pc = "loop" /\ entry \in Many0Repetitions \cup RepeatRepetitions
                  /\ parts = [start |-> start, calls |-> <<>>,
                              items |-> [p \in 0..Len(s) |-> Item(entry, s, p)]]

\* An iteration that leaves the read position where it was.
RepeatStepInPlace(r) ==
    /\ result' = r
    /\ pos' = pos
    /\ pc' = IF r.ok THEN "loop" ELSE "done"
    /\ UNCHANGED <<input, parts, reader, entry>>

\* One round of pom's repeat(min..): the item parser runs at the read position; on
\* a success the position moves to where the item ended, on a failure the loop ends.
RepeatStep(r) ==
    /\ result' = r
    /\ pos' = IF r.ok THEN r.pos ELSE pos
    /\ pc' = IF r.ok THEN "loop" ELSE "done"
    /\ UNCHANGED <<input, parts, reader, entry>>

\* One round of nom's many0 and many0_count: as above, and an item that succeeds
\* without consuming ends the loop with an error.
Many0Step(r) ==
    /\ result' = IF r.ok /\ r.pos = pos THEN Fail("Error", pos) ELSE r
    /\ pos' = IF r.ok THEN r.pos ELSE pos
    /\ pc' = IF r.ok /\ r.pos # pos THEN "loop" ELSE "done"
    /\ UNCHANGED <<input, parts, reader, entry>>

StepRepeat == pc = "loop" /\ entry \in RepeatRepetitions /\ RepeatStep(parts.items[pos])
StepMany0 == pc = "loop" /\ entry \in Many0Repetitions /\ Many0Step(parts.items[pos])

\* A call of an entry point at the start offset.
Call(e) ==
    /\ pc = "ready"
    /\ entry' = e
    /\ result' = parts.calls[e]
    /\ pc' = "done"
    /\ UNCHANGED <<input, parts, reader, pos>>

NextProgress == StepRepeat \/ StepMany0 \/ \E e \in EntryPoints : Call(e)

\* The parser runs on: a call or an iteration that can be taken is taken.
SpecProgress == InitProgress /\ [][NextProgress]_vars /\ WF_vars(NextProgress)

\* C10: every iteration of a repetition that is followed by another moves the read
\* position forward by at least one byte and not beyond the input; every position
\* an entry point returns lies between its start and the input length; and every
\* repetition and every call comes to an end.
C10_Progress ==
    /\ [][(pc = "loop" /\ pc' = "loop") => (pos < pos' /\ pos' <= Len(input))]_vars
    /\ [](pc = "done" /\ result.ok => parts.start <= result.pos /\ result.pos <= Len(input))
    /\ <>(pc = "done")

\* A literal string's repetition that ran from the opening parenthesis over its
\* segments, an escaped line break among them, and ended at the closing one.
C10_Witness ==
    /\ pc = "done" /\ entry = "literal_string" /\ input = TextString
    /\ parts.start = 1 /\ pos = Len(TextString) - 1
    /\ ~result.ok

====
